---------------------------- MODULE Spec2Model ----------------------------
(***************************************************************************)
(* Model of sailnavsim-core's Boat.c: the per-tick motion of one boat      *)
(* (Boat_new, Boat_advance, Boat_isHeadingTowardWater, updateCourse,       *)
(* updateVelocity, stopBoat, oceanIceSpeedAdjustmentFactor).               *)
(*                                                                         *)
(* Numbers.  Every C double that Boat.c computes with (v.angle, v.mag,     *)
(* desiredCourse, distanceTravelled, s, wind and current vectors) is a     *)
(* binary floating-point number.  The model keeps the format and its       *)
(* round-to-nearest-even arithmetic, scaled down: a number is an integer   *)
(* count of units of 2^-FracBits, and it is representable when it has at   *)
(* most Precision significant bits.  Every +, -, * and / of the code is    *)
(* FAdd, FSub, FMul, FDiv: the exact result rounded to the format.         *)
(* Positions are only compared and handed to the geographic library, so    *)
(* latitude and longitude are integers in units of FORBIDDEN_LAT.          *)
(***************************************************************************)
EXTENDS Integers, Sequences, FiniteSets, TLC

\* ------------------------------------------------------------------ bounds
\* Fraction bits of the unit (the smallest exponent of the format).
FracBits == 4
\* Significand bits of the format (53 in an IEEE double).
Precision == 8

\* ------------------------------------------------- floating-point numbers
Pow2(n) == 2 ^ n

Scale == Pow2(FracBits)

Abs(x) == IF x < 0 THEN -x ELSE x

\* Number of bits of the natural number n.
BitLen(n) == CHOOSE k \in 0..30 : n < 2 ^ k /\ (k = 0 \/ 2 ^ (k - 1) <= n)

\* The spacing of the format's numbers around the magnitude q (in units).
Ulp(q) == IF q < Pow2(Precision) THEN 1 ELSE Pow2(BitLen(q) - Precision)

\* Whether the significand m is rounded up, the remainder being rem/whole of
\* one spacing: above the half, or at the half with m odd.
RoundUp(rem, whole, m) == (2 * rem > whole) \/ (2 * rem = whole /\ m % 2 = 1)

\* a/d rounded to a multiple of the spacing g, m being the multiple below it.
RndAt(a, d, g, m) == (IF RoundUp(a - m * g * d, g * d, m) THEN m + 1 ELSE m) * g
RndTo(a, d, g) == RndAt(a, d, g, a \div (g * d))

\* The magnitude a/d (a >= 0, d > 0, in units) rounded to nearest, ties to even.
RndMag(a, d) == RndTo(a, d, Ulp(a \div d))

Sign(n) == IF n < 0 THEN -1 ELSE 1

\* The rational n/d (d > 0), in units, rounded to the format.
Rnd(n, d) == Sign(n) * RndMag(Abs(n), d)

FAdd(x, y) == Rnd(x + y, 1)
FSub(x, y) == Rnd(x - y, 1)
FMul(x, y) == Rnd(x * y, Scale)
FDiv(x, y) == IF y < 0 THEN Rnd(-(x * Scale), -y) ELSE Rnd(x * Scale, y)

\* The double nearest to the decimal literal n/d.
Lit(n, d) == Rnd(n * Scale, d)
\* Whole degrees (or whole units of speed, distance, time) as a number.
Deg(n) == Lit(n, 1)

IsFloat(x) == Rnd(x, 1) = x


\* ------------------------------------------------------- program constants
\* FORBIDDEN_LAT is 0.0001 degrees: latitudes and longitudes are integers in
\* units of FORBIDDEN_LAT, so the margin itself is one unit.
FORBIDDEN_LAT == 1
\* 90.0 degrees of latitude in units of FORBIDDEN_LAT.
Lat90 == 900000
MOVE_TO_WATER_DISTANCE == 100

\* The literals of Boat.c as numbers of the format.
F360 == Deg(360)
F180 == Deg(180)
F179 == Deg(179)
F100 == Deg(100)
F10 == Deg(10)
F1 == Deg(1)
FHalf == Lit(1, 2)
FTenth == Lit(1, 10)

\* ------------------------------------------------------------------ bounds
\* Modulus of the pseudo-random seed (2^32 for an unsigned int).
RandMod == 8
\* Seeds Boat_init may leave in _randSeed are 0..MaxInitSeed.
MaxInitSeed == 1
\* Boat_advance is called at most this many times on a boat.
MaxTicks == 2

\* ------------------------------------------------- external collaborators
\* libProteus and libc are not part of the repository; BoatWindResponse.c is,
\* but is not among the sources.  Each is modelled from its contract.

\* proteus_Compass_diff(a, b): signed shortest rotation from a to b, in (-180, 180].
Compass_diff(a, b) ==
    LET d == FSub(b, a)
    IN  IF d > F180 THEN FSub(d, F360)
        ELSE IF d <= -F180 THEN FAdd(d, F360)
        ELSE d

\* A quarter turn, in units.
Quarter == 90 * Scale

\* Numerators (over Quarter) of a piecewise-linear cosine and sine of the
\* compass angle a: exact on the four cardinal directions.
CosNum(a) ==
    LET r == a % (4 * Quarter)
    IN  IF r <= 2 * Quarter THEN Quarter - r ELSE r - 3 * Quarter
SinNum(a) == CosNum((a % (4 * Quarter)) + 3 * Quarter)

\* n/d rounded to the nearest integer, halves away from zero (d > 0).
RoundInt(n, d) ==
    IF n < 0 THEN -((2 * (-n) + d) \div (2 * d)) ELSE (2 * n + d) \div (2 * d)

\* proteus_GeoPos_advance(pos, v): pos moved by the vector v on a plane chart
\* whose unit of distance is one unit of latitude.
GeoPos_advance(pos, v) ==
    [lat |-> pos.lat + RoundInt(v.mag * CosNum(v.angle), Scale * Quarter),
     lon |-> pos.lon + RoundInt(v.mag * SinNum(v.angle), Scale * Quarter)]

\* Integer square root by bisection: the r in lo..hi with r*r <= n < (r+1)*(r+1).
RECURSIVE SqrtIn(_, _, _)
SqrtIn(n, lo, hi) ==
    IF lo >= hi THEN lo
    ELSE LET mid == (lo + hi + 1) \div 2
         IN  IF mid * mid <= n THEN SqrtIn(n, mid, hi) ELSE SqrtIn(n, lo, mid - 1)
ISqrt(n) == SqrtIn(n, 0, 4096)

\* proteus_GeoVec_add(a, b): the vector sum of a and b; only its magnitude is
\* read by Boat.c.  Components are taken on the same chart as GeoPos_advance.
GeoVec_add(a, b) ==
    LET x == Rnd(a.mag * SinNum(a.angle), Quarter) + Rnd(b.mag * SinNum(b.angle), Quarter)
        y == Rnd(a.mag * CosNum(a.angle), Quarter) + Rnd(b.mag * CosNum(b.angle), Quarter)
    IN  [angle |-> a.angle, mag |-> Rnd(ISqrt(x * x + y * y), 1)]

\* proteus_GeoInfo_isWater(pos): a fixed chart.  A strip of land three units
\* wide runs along longitudes 0..2 (water is within reach of the probe from
\* anywhere on it); everything from longitude 1000 eastwards is land.
GeoInfo_isWater(pos) == ~(pos.lon \in 0..2 \/ pos.lon >= 1000)

\* BoatWindResponse_getCourseChangeRate(boatType), degrees per second.
getCourseChangeRate(boatType) == IF boatType = 0 THEN F10 ELSE Deg(30)

\* BoatWindResponse_getSpeedChangeResponse(boatType), seconds.
getSpeedChangeResponse(boatType) == IF boatType = 0 THEN F1 ELSE Deg(3)

\* BoatWindResponse_getBoatSpeed(windSpd, angleFromWind, boatType): no drive
\* within 45 degrees of the wind, else a fixed fraction of the wind speed.
getBoatSpeed(windSpd, angleFromWind, boatType) ==
    IF Abs(angleFromWind) < Deg(45) THEN 0
    ELSE IF boatType = 0 THEN FMul(windSpd, FHalf) ELSE FMul(windSpd, Lit(1, 4))

\* rand_r(&seed): a linear congruential step; the new seed and the value returned.
rand_r(seed) ==
    LET next == (seed * 5 + 3) % RandMod
    IN  [seed |-> next, value |-> next \div 2]


\* ------------------------------------------------------------------- state
VARIABLES
    boat,       \* the Boat record
    randSeed,   \* static unsigned int _randSeed
    op,         \* what produced this state: "new", "command" or "advance"
    pre,        \* the Boat record as Boat_advance found it (else the boat itself)
    arg,        \* what the last Boat_advance was given: s, and what the lookups returned
    calls,      \* the calls the last Boat_advance made, in order
    ticks,      \* how many times Boat_advance has been called
    ctx         \* per execution context: where it is in rand_r(&_randSeed), if there

vars == <<boat, randSeed, op, pre, arg, calls, ticks, ctx>>

NoVec == [angle |-> 0, mag |-> 0]
NoArg == [s |-> 0, od |-> [valid |-> FALSE, current |-> NoVec, ice |-> 0], wx |-> NoVec]

Call(fn, pos, vec) == [fn |-> fn, pos |-> pos, vec |-> vec]

\* The names of the calls in a trace, in order.
Fns(cs) == [i \in 1..Len(cs) |-> cs[i].fn]
Made(cs, fn) == \E i \in 1..Len(cs) : cs[i].fn = fn

\* ------------------------------------------------------------------ Boat.c
Boat_new(lat, lon, boatType) ==
    [pos |-> [lat |-> lat, lon |-> lon],
     v |-> [angle |-> 0, mag |-> 0],
     desiredCourse |-> 0,
     distanceTravelled |-> 0,
     boatType |-> boatType,
     stop |-> TRUE,
     sailsDown |-> FALSE,
     movingToSea |-> FALSE,
     setImmediateDesiredCourse |-> TRUE]

\* stopBoat that leaves the speed as it was.
stopBoat_KeepSpeed(b) == [b EXCEPT !.stop = TRUE]

stopBoat(b) == [b EXCEPT !.stop = TRUE, !.v.mag = 0]

\* The ice factor read from the ocean data whether or not it is valid.
oceanIceSpeedAdjustmentFactor_IgnoreValid(valid, od) == FSub(F1, FDiv(od.ice, F100))

oceanIceSpeedAdjustmentFactor(valid, od) ==
    IF valid THEN FSub(F1, FDiv(od.ice, F100)) ELSE F1

\* The polar test with the margin's own latitude left outside the margin.
NearPole_Strict(pos) ==
    (pos.lat > Lat90 - FORBIDDEN_LAT) \/ (pos.lat < -Lat90 + FORBIDDEN_LAT)

\* The test at the head of Boat_advance for the polar margin.
NearPole(pos) ==
    (pos.lat >= Lat90 - FORBIDDEN_LAT) \/ (pos.lat <= -Lat90 + FORBIDDEN_LAT)

\* The positions the loop of Boat_isHeadingTowardWater hands to
\* proteus_GeoInfo_isWater from distance d on, in order.
RECURSIVE ProbeSamples(_, _, _)
ProbeSamples(pos, v, d) ==
    IF d <= MOVE_TO_WATER_DISTANCE + 10
    THEN IF GeoInfo_isWater(pos) THEN <<pos>>
         ELSE <<pos>> \o ProbeSamples(GeoPos_advance(pos, v), v, d + 10)
    ELSE <<>>

\* The loop of Boat_isHeadingTowardWater ending at the maximum lookahead,
\* without the extra increment.
RECURSIVE WaterWithin_NoExtraStep(_, _, _)
WaterWithin_NoExtraStep(pos, v, d) ==
    IF d < MOVE_TO_WATER_DISTANCE + 10
    THEN IF GeoInfo_isWater(pos) THEN TRUE
         ELSE WaterWithin_NoExtraStep(GeoPos_advance(pos, v), v, d + 10)
    ELSE FALSE

\* The loop of Boat_isHeadingTowardWater from distance d on.
RECURSIVE WaterWithin(_, _, _)
WaterWithin(pos, v, d) ==
    IF d <= MOVE_TO_WATER_DISTANCE + 10
    THEN IF GeoInfo_isWater(pos) THEN TRUE
         ELSE WaterWithin(GeoPos_advance(pos, v), v, d + 10)
    ELSE FALSE

Boat_isHeadingTowardWater(b) ==
    WaterWithin(b.pos, [angle |-> b.desiredCourse, mag |-> F10], 0)

\* The final normalisation of updateCourse.
NormalizeAngle(a) ==
    IF a < 0 THEN FAdd(a, F360)
    ELSE IF a >= F360 THEN FSub(a, F360)
    ELSE a

\* Which way updateCourse turns: "left", "right" or "random".
TurnChoice(courseDiff) ==
    IF courseDiff < 0 /\ courseDiff >= -F179 THEN "left"
    ELSE IF courseDiff > 0 /\ courseDiff <= F179 THEN "right"
    ELSE "random"

\* updateCourse without the snap to a desired course within reach.
updateCourse_NoSnap(b, s, seed) ==
    LET courseDiff == Compass_diff(b.v.angle, b.desiredCourse)
        step == FMul(getCourseChangeRate(b.boatType), s)
        r == rand_r(seed)
        choice == TurnChoice(courseDiff)
        left == choice = "left" \/ (choice = "random" /\ r.value % 2 = 0)
        turned == IF left THEN FSub(b.v.angle, step) ELSE FAdd(b.v.angle, step)
    IN  [b |-> [b EXCEPT !.v.angle = NormalizeAngle(turned)],
         seed |-> IF choice = "random" THEN r.seed ELSE seed,
         calls |-> IF choice = "random" THEN <<Call("rand_r", b.pos, NoVec)>> ELSE <<>>]

\* updateCourse(b, s): the boat, the seed and the calls made.
updateCourse(b, s, seed) ==
    LET courseDiff == Compass_diff(b.v.angle, b.desiredCourse)
        courseChangeRate == getCourseChangeRate(b.boatType)
        step == FMul(courseChangeRate, s)
        r == rand_r(seed)
        choice == TurnChoice(courseDiff)
        left == choice = "left" \/ (choice = "random" /\ r.value % 2 = 0)
        turned == IF left THEN FSub(b.v.angle, step) ELSE FAdd(b.v.angle, step)
    IN  IF Abs(courseDiff) <= step
        THEN [b |-> [b EXCEPT !.v.angle = b.desiredCourse], seed |-> seed, calls |-> <<>>]
        ELSE [b |-> [b EXCEPT !.v.angle = NormalizeAngle(turned)],
              seed |-> IF choice = "random" THEN r.seed ELSE seed,
              calls |-> IF choice = "random" THEN <<Call("rand_r", b.pos, NoVec)>> ELSE <<>>]

\* updateVelocity(b, s, odv, od) with the wind wx that proteus_Weather_get returns.
updateVelocity(b, s, odv, od, wx) ==
    LET angleFromWind == Compass_diff(wx.angle, b.v.angle)
        spd == FMul(getBoatSpeed(wx.mag, angleFromWind, b.boatType),
                    oceanIceSpeedAdjustmentFactor(odv, od))
        speedChangeResponse == getSpeedChangeResponse(b.boatType)
    IN  [b EXCEPT !.v.mag = FDiv(FAdd(FMul(speedChangeResponse, b.v.mag), FMul(s, spd)),
                                 FAdd(speedChangeResponse, s))]

\* SetVelocity with the sails-down heading left as it was.
SetVelocity_KeepHeading(b, s, seed, od, wx) ==
    IF b.sailsDown
    THEN [b |-> [b EXCEPT !.v.mag = FMul(FMul(wx.mag, FTenth),
                                         oceanIceSpeedAdjustmentFactor(od.valid, od))],
          seed |-> seed,
          calls |-> <<Call("Weather_get", b.pos, NoVec)>>]
    ELSE LET c == updateCourse(b, s, seed)
         IN  [b |-> updateVelocity(c.b, s, od.valid, od, wx),
              seed |-> c.seed,
              calls |-> <<Call("updateCourse", b.pos, NoVec)>> \o c.calls
                        \o <<Call("updateVelocity", b.pos, NoVec),
                             Call("Weather_get", b.pos, NoVec)>>]

\* Lines 130-153: the velocity of this tick, sails down or up.
SetVelocity(b, s, seed, od, wx) ==
    IF b.sailsDown
    THEN LET a == FAdd(wx.angle, F180)
         IN  [b |-> [b EXCEPT !.v.angle = IF a >= F360 THEN FSub(a, F360) ELSE a,
                              !.v.mag = FMul(FMul(wx.mag, FTenth),
                                             oceanIceSpeedAdjustmentFactor(od.valid, od))],
              seed |-> seed,
              calls |-> <<Call("Weather_get", b.pos, NoVec)>>]
    ELSE LET c == updateCourse(b, s, seed)
         IN  [b |-> updateVelocity(c.b, s, od.valid, od, wx),
              seed |-> c.seed,
              calls |-> <<Call("updateCourse", b.pos, NoVec)>> \o c.calls
                        \o <<Call("updateVelocity", b.pos, NoVec),
                             Call("Weather_get", b.pos, NoVec)>>]

\* Displace with the distance assigned (=) where the code accumulates (+=).
Displace_Assign(b, s, od) ==
    LET v == [angle |-> b.v.angle, mag |-> FMul(b.v.mag, s)]
        p1 == GeoPos_advance(b.pos, v)
        current == [angle |-> od.current.angle, mag |-> FMul(od.current.mag, s)]
        p2 == GeoPos_advance(p1, current)
    IN  IF od.valid
        THEN [b |-> [b EXCEPT !.pos = p2,
                              !.distanceTravelled = GeoVec_add(current, v).mag],
              calls |-> <<Call("GeoPos_advance", b.pos, v),
                          Call("GeoPos_advance", p1, current),
                          Call("GeoVec_add", p2, current)>>]
        ELSE [b |-> [b EXCEPT !.pos = p1, !.distanceTravelled = Abs(v.mag)],
              calls |-> <<Call("GeoPos_advance", b.pos, v)>>]

\* Displace with the two magnitudes added where the code adds the vectors.
Displace_SumOfMagnitudes(b, s, od) ==
    LET v == [angle |-> b.v.angle, mag |-> FMul(b.v.mag, s)]
        p1 == GeoPos_advance(b.pos, v)
        current == [angle |-> od.current.angle, mag |-> FMul(od.current.mag, s)]
        p2 == GeoPos_advance(p1, current)
    IN  IF od.valid
        THEN [b |-> [b EXCEPT !.pos = p2,
                              !.distanceTravelled =
                                  FAdd(b.distanceTravelled, FAdd(current.mag, Abs(v.mag)))],
              calls |-> <<Call("GeoPos_advance", b.pos, v),
                          Call("GeoPos_advance", p1, current),
                          Call("GeoVec_add", p2, current)>>]
        ELSE [b |-> [b EXCEPT !.pos = p1,
                              !.distanceTravelled = FAdd(b.distanceTravelled, Abs(v.mag))],
              calls |-> <<Call("GeoPos_advance", b.pos, v)>>]

\* Lines 155-175: the two displacements and the distance travelled.
Displace(b, s, od) ==
    LET v == [angle |-> b.v.angle, mag |-> FMul(b.v.mag, s)]
        p1 == GeoPos_advance(b.pos, v)
        current == [angle |-> od.current.angle, mag |-> FMul(od.current.mag, s)]
        p2 == GeoPos_advance(p1, current)
    IN  IF od.valid
        THEN [b |-> [b EXCEPT !.pos = p2,
                              !.distanceTravelled =
                                  FAdd(b.distanceTravelled, GeoVec_add(current, v).mag)],
              calls |-> <<Call("GeoPos_advance", b.pos, v),
                          Call("GeoPos_advance", p1, current),
                          Call("GeoVec_add", p2, current)>>]
        ELSE [b |-> [b EXCEPT !.pos = p1,
                              !.distanceTravelled = FAdd(b.distanceTravelled, Abs(v.mag))],
              calls |-> <<Call("GeoPos_advance", b.pos, v)>>]

\* CheckGrounding with the test inverted: the boat is stopped on water.
CheckGrounding_Inverted(b) ==
    IF GeoInfo_isWater(b.pos)
    THEN [b |-> stopBoat(b),
          calls |-> <<Call("GeoInfo_isWater", b.pos, NoVec), Call("stopBoat", b.pos, NoVec)>>]
    ELSE [b |-> b, calls |-> <<Call("GeoInfo_isWater", b.pos, NoVec)>>]

\* CheckGrounding that never stops the boat.
CheckGrounding_Never(b) == [b |-> b, calls |-> <<Call("GeoInfo_isWater", b.pos, NoVec)>>]

\* Lines 177-181: the check for grounding after the move.
CheckGrounding(b) ==
    IF ~GeoInfo_isWater(b.pos)
    THEN [b |-> stopBoat(b),
          calls |-> <<Call("GeoInfo_isWater", b.pos, NoVec), Call("stopBoat", b.pos, NoVec)>>]
    ELSE [b |-> b, calls |-> <<Call("GeoInfo_isWater", b.pos, NoVec)>>]

\* Lines 127-181: a sailing tick.
Sail(b, s, seed, od, wx, before) ==
    LET vel == SetVelocity(b, s, seed, od, wx)
        mv == Displace(vel.b, s, od)
        g == CheckGrounding(mv.b)
    IN  [b |-> g.b, seed |-> vel.seed,
         calls |-> before \o <<Call("Ocean_get", b.pos, NoVec)>>
                   \o vel.calls \o mv.calls \o g.calls]

\* ApproachWater with the fixed speed not scaled by s.
ApproachWater_UnscaledSpeed(b, s, seed) ==
    LET v == [angle |-> b.desiredCourse, mag |-> FHalf]
        look == <<Call("GeoInfo_isWater", b.pos, NoVec),
                  Call("Boat_isHeadingTowardWater", b.pos, NoVec)>>
    IN  IF Boat_isHeadingTowardWater(b)
        THEN [b |-> [b EXCEPT !.v = v, !.pos = GeoPos_advance(b.pos, v)],
              seed |-> seed,
              calls |-> look \o <<Call("GeoPos_advance", b.pos, v)>>]
        ELSE [b |-> stopBoat(b), seed |-> seed,
              calls |-> look \o <<Call("stopBoat", b.pos, NoVec)>>]

\* Lines 106-124: on land while moving to sea.
ApproachWater(b, s, seed) ==
    LET v == [angle |-> b.desiredCourse, mag |-> FMul(s, FHalf)]
        look == <<Call("GeoInfo_isWater", b.pos, NoVec),
                  Call("Boat_isHeadingTowardWater", b.pos, NoVec)>>
    IN  IF Boat_isHeadingTowardWater(b)
        THEN [b |-> [b EXCEPT !.v = v, !.pos = GeoPos_advance(b.pos, v)],
              seed |-> seed,
              calls |-> look \o <<Call("GeoPos_advance", b.pos, v)>>]
        ELSE [b |-> stopBoat(b), seed |-> seed,
              calls |-> look \o <<Call("stopBoat", b.pos, NoVec)>>]

\* ReachWater that leaves movingToSea set.
ReachWater_KeepMoving(b) ==
    IF b.setImmediateDesiredCourse
    THEN [b EXCEPT !.v.angle = b.desiredCourse, !.setImmediateDesiredCourse = FALSE]
    ELSE b

\* ReachWater that snaps the heading whether or not setImmediateDesiredCourse is set.
ReachWater_AlwaysSnap(b) ==
    [b EXCEPT !.movingToSea = FALSE, !.v.angle = b.desiredCourse,
              !.setImmediateDesiredCourse = FALSE]

\* Lines 93-105: on water while moving to sea.
ReachWater(b) ==
    IF b.setImmediateDesiredCourse
    THEN [b EXCEPT !.movingToSea = FALSE, !.v.angle = b.desiredCourse,
                   !.setImmediateDesiredCourse = FALSE]
    ELSE [b EXCEPT !.movingToSea = FALSE]

\* Lines 82-181: Boat_advance on a boat that is not stopped.
Running(b, s, seed, od, wx) ==
    IF NearPole(b.pos)
    THEN [b |-> stopBoat(b), seed |-> seed, calls |-> <<Call("stopBoat", b.pos, NoVec)>>]
    ELSE IF b.movingToSea
    THEN IF GeoInfo_isWater(b.pos)
         THEN Sail(ReachWater(b), s, seed, od, wx, <<Call("GeoInfo_isWater", b.pos, NoVec)>>)
         ELSE ApproachWater(b, s, seed)
    ELSE Sail(b, s, seed, od, wx, <<>>)

\* Boat_advance without its test of b->stop.
Boat_advance_NoStopTest(b, s, seed, od, wx) == Running(b, s, seed, od, wx)

\* Boat_advance(b, s): the boat, the seed and the calls made, given what
\* proteus_Ocean_get (od) and proteus_Weather_get (wx) return when called.
Boat_advance(b, s, seed, od, wx) ==
    IF b.stop
    THEN [b |-> b, seed |-> seed, calls |-> <<>>]
    ELSE Running(b, s, seed, od, wx)


\* ------------------------------------------------------------------ inputs
\* The boats created: on the strip of land, on open water (one of each type),
\* deep inside the eastern land, on water next to it, inside and next to the
\* northern polar margin, inside the southern one.
NewBoats ==
    {[lat |-> 0, lon |-> 2, boatType |-> 0],
     [lat |-> 0, lon |-> 5, boatType |-> 0],
     [lat |-> 0, lon |-> 5, boatType |-> 1],
     [lat |-> 0, lon |-> 1200, boatType |-> 0],
     [lat |-> 0, lon |-> 998, boatType |-> 0],
     [lat |-> Lat90 - 1, lon |-> 5, boatType |-> 0],
     [lat |-> Lat90 - 3, lon |-> 5, boatType |-> 0],
     [lat |-> -Lat90 + 1, lon |-> 1, boatType |-> 0]}

\* Courses a pilot sets (9.5 degrees is Lit(19, 2)).
CourseSet == {Lit(19, 2), Deg(90), Deg(270)}

\* What proteus_Weather_get returns: the wind (the angle it blows from, its speed).
WindA == [angle |-> Deg(270), mag |-> Deg(8)]
WindB == [angle |-> Deg(135), mag |-> Deg(4)]

\* What proteus_Ocean_get returns.  When valid is FALSE the rest of the record
\* is whatever the caller's stack held.
OceanNone == [valid |-> FALSE, current |-> [angle |-> Deg(90), mag |-> Deg(2)], ice |-> Deg(50)]
OceanA == [valid |-> TRUE, current |-> [angle |-> Deg(90), mag |-> Deg(3)], ice |-> 0]
OceanB == [valid |-> TRUE, current |-> [angle |-> Deg(180), mag |-> Deg(1)], ice |-> Deg(50)]

\* One call's inputs: the elapsed seconds s and what the two lookups return
\* if Boat_advance makes them.
Inputs ==
    {[s |-> Deg(1), od |-> OceanNone, wx |-> WindA],
     [s |-> Deg(2), od |-> OceanNone, wx |-> WindB],
     [s |-> Deg(1), od |-> OceanA, wx |-> WindA],
     [s |-> Deg(2), od |-> OceanB, wx |-> WindB]}

\* The two execution contexts, neither inside a call.
Contexts == {1, 2}
NoCtx == [c \in Contexts |-> [pc |-> "idle", seen |-> 0, b |-> Boat_new(0, 5, 0)]]

\* ----------------------------------------------------------------- actions
\* Boat_init() then Boat_new(lat, lon, boatType).
Init ==
    /\ \E n \in NewBoats : boat = Boat_new(n.lat, n.lon, n.boatType)
    /\ randSeed \in 0..MaxInitSeed
    /\ op = "new"
    /\ pre = boat
    /\ arg = NoArg
    /\ calls = <<>>
    /\ ticks = 0
    /\ ctx = NoCtx

\* One call of Boat_advance(boat, s).
Advance ==
    /\ ticks < MaxTicks
    /\ \E in \in Inputs :
          \E r \in {Boat_advance(boat, in.s, randSeed, in.od, in.wx)} :
              /\ boat' = r.b
              /\ randSeed' = r.seed
              /\ calls' = r.calls
              /\ arg' = [s |-> in.s,
                         od |-> IF Made(r.calls, "Ocean_get") THEN in.od ELSE NoArg.od,
                         wx |-> IF Made(r.calls, "Weather_get") THEN in.wx ELSE NoArg.wx]
    /\ pre' = boat
    /\ op' = "advance"
    /\ ticks' = ticks + 1
    /\ UNCHANGED ctx

\* The caller's commands write the fields of the record directly, between
\* calls of Boat_advance.
Command(b) ==
    /\ ticks < MaxTicks
    /\ boat' = b
    /\ op' = "command"
    /\ pre' = b
    /\ arg' = NoArg
    /\ calls' = <<>>
    /\ UNCHANGED <<randSeed, ticks, ctx>>

\* The boat is (re)started: stop is cleared, and a start from the shore sets movingToSea.
CmdStart ==
    /\ boat.stop
    /\ \E toSea \in BOOLEAN :
          Command([boat EXCEPT !.stop = FALSE,
                               !.movingToSea = IF toSea THEN TRUE ELSE @])

\* The pilot sets the desired course.
CmdCourse ==
    \E c \in CourseSet : c # boat.desiredCourse /\ Command([boat EXCEPT !.desiredCourse = c])

\* The pilot lowers or raises the sails.
CmdSails == Command([boat EXCEPT !.sailsDown = ~@])

Next == Advance \/ CmdStart \/ CmdCourse \/ CmdSails

Spec == Init /\ [][Next]_vars


\* ---------------------------------------------- updateCourse on its own
\* Every heading of the format in [0, 360).
HeadingSet == {h \in 0..(F360 - 1) : IsFloat(h)}

\* Desired courses for updateCourse on its own.
WideCourseSet == {Deg(0), Deg(5), Lit(19, 2), Deg(90), Deg(180), Deg(270), Deg(350)}

\* Elapsed seconds for updateCourse on its own.
DtSet == {Deg(1), Deg(2)}

\* A boat under sail on open water with any heading and desired course.
InitCourse ==
    /\ \E h \in HeadingSet, c \in WideCourseSet, bt \in {0, 1} :
          boat = [Boat_new(0, 5, bt) EXCEPT !.stop = FALSE, !.v.angle = h,
                                            !.desiredCourse = c,
                                            !.setImmediateDesiredCourse = FALSE]
    /\ randSeed \in 0..MaxInitSeed
    /\ op = "command"
    /\ pre = boat
    /\ arg = NoArg
    /\ calls = <<>>
    /\ ticks = 0
    /\ ctx = NoCtx

\* One call of updateCourse(boat, s).
CourseStep ==
    /\ ticks = 0
    /\ \E s \in DtSet :
          \E r \in {updateCourse(boat, s, randSeed)} :
              /\ boat' = r.b
              /\ randSeed' = r.seed
              /\ calls' = r.calls
              /\ arg' = [NoArg EXCEPT !.s = s]
    /\ pre' = boat
    /\ op' = "updateCourse"
    /\ ticks' = ticks + 1
    /\ UNCHANGED ctx

SpecCourse == InitCourse /\ [][CourseStep]_vars


\* ------------------------------------------- boats started a second time
\* A boat that ran aground on the eastern shore on an earlier voyage (heading
\* east, stopped there with speed 0, its first-start snap already used) and
\* has been started toward the sea again: still on the shore, or afloat next
\* to it.  With it, a boat on its first start from the same places.
RestartedBoats ==
    {[Boat_new(0, lon, bt) EXCEPT !.stop = FALSE, !.movingToSea = TRUE,
                                  !.setImmediateDesiredCourse = first,
                                  !.v.angle = IF first THEN 0 ELSE Deg(100),
                                  !.desiredCourse = c,
                                  !.sailsDown = down,
                                  !.distanceTravelled = IF first THEN 0 ELSE Deg(3)] :
        lon \in {999, 1000}, bt \in {0, 1}, first \in BOOLEAN,
        c \in CourseSet, down \in BOOLEAN}

InitRestart ==
    /\ boat \in RestartedBoats
    /\ randSeed \in 0..MaxInitSeed
    /\ op = "command"
    /\ pre = boat
    /\ arg = NoArg
    /\ calls = <<>>
    /\ ticks = 0
    /\ ctx = NoCtx

SpecRestart == InitRestart /\ [][Advance]_vars


\* -------------------------------------- Boat_isHeadingTowardWater on its own
\* Boats on the eastern land up to 125 units from its shore, on the strip of
\* land and on open water, with a desired course to any of the four quarters
\* or 9.5 degrees.
ProbeBoats ==
    {[Boat_new(0, lon, 0) EXCEPT !.stop = FALSE, !.movingToSea = TRUE, !.desiredCourse = c] :
        lon \in (0..5) \cup (1000..1125),
        c \in {Deg(0), Lit(19, 2), Deg(90), Deg(180), Deg(270)}}

InitProbe ==
    /\ boat \in ProbeBoats
    /\ randSeed = 0
    /\ op = "command"
    /\ pre = boat
    /\ arg = NoArg
    /\ calls = <<>>
    /\ ticks = 0
    /\ ctx = NoCtx

\* One call of Boat_isHeadingTowardWater(boat): the positions it samples,
\* then what it returns.  The function works on a copy of the position
\* (line 189) and writes nothing to the boat.
ProbeStep ==
    /\ ticks = 0
    /\ \E v \in {[angle |-> boat.desiredCourse, mag |-> F10]} :
          \E samples \in {ProbeSamples(boat.pos, v, 0)} :
              calls' = [i \in 1..Len(samples) |-> Call("GeoInfo_isWater", samples[i], v)]
                       \o <<Call(IF Boat_isHeadingTowardWater(boat) THEN "return true"
                                 ELSE "return false", boat.pos, v)>>
    /\ boat' = boat
    /\ pre' = boat
    /\ op' = "probe"
    /\ arg' = NoArg
    /\ ticks' = ticks + 1
    /\ UNCHANGED <<randSeed, ctx>>

SpecProbe == InitProbe /\ [][ProbeStep]_vars


\* ------------------------------------------ two boats advanced concurrently
\* Boats under sail whose desired course is opposite their heading, so that
\* updateCourse reaches rand_r(&_randSeed) (lines 233-247).
OppositeBoats ==
    {[Boat_new(0, 5, bt) EXCEPT !.stop = FALSE, !.setImmediateDesiredCourse = FALSE,
                                !.v.angle = h, !.desiredCourse = FAdd(h, F180)] :
        h \in {Deg(0), Deg(90)}, bt \in {0, 1}}

\* Two execution contexts, each about to call Boat_advance on its own boat.
\* _randSeed is the one static variable of the file (line 42).
InitRace ==
    /\ ctx \in [Contexts -> {[pc |-> "idle", seen |-> 0, b |-> b] : b \in OppositeBoats}]
    /\ randSeed \in 0..MaxInitSeed
    /\ boat = Boat_new(0, 5, 0)
    /\ op = "new"
    /\ pre = boat
    /\ arg = NoArg
    /\ calls = <<>>
    /\ ticks = 0

\* Context c runs updateCourse up to its call of rand_r (lines 212-237): the
\* course difference is in the near-opposite band and beyond one step.
EnterRand(c) ==
    /\ ctx[c].pc = "idle"
    /\ TurnChoice(Compass_diff(ctx[c].b.v.angle, ctx[c].b.desiredCourse)) = "random"
    /\ Abs(Compass_diff(ctx[c].b.v.angle, ctx[c].b.desiredCourse))
           > FMul(getCourseChangeRate(ctx[c].b.boatType), F1)
    /\ ctx' = [ctx EXCEPT ![c].pc = "load"]
    /\ UNCHANGED <<boat, randSeed, op, pre, arg, calls, ticks>>

\* rand_r reads *seed.  Nothing in Boat.c orders this read against the other
\* context's accesses: there is no lock and _randSeed is not atomic.
LoadSeed(c) ==
    /\ ctx[c].pc = "load"
    /\ ctx' = [ctx EXCEPT ![c].pc = "store", ![c].seen = randSeed]
    /\ UNCHANGED <<boat, randSeed, op, pre, arg, calls, ticks>>

\* rand_r writes the next seed computed from what it read and returns; the
\* rest of updateCourse (lines 237-256) turns the context's boat.
StoreSeed(c) ==
    /\ ctx[c].pc = "store"
    /\ \E r \in {updateCourse(ctx[c].b, F1, ctx[c].seen)} :
          /\ randSeed' = r.seed
          /\ ctx' = [ctx EXCEPT ![c].pc = "done", ![c].b = r.b]
    /\ UNCHANGED <<boat, op, pre, arg, calls, ticks>>

NextRace == \E c \in Contexts : EnterRand(c) \/ LoadSeed(c) \/ StoreSeed(c)

SpecRace == InitRace /\ [][NextRace]_vars


\* ------------------------------------------- the land approach, tick on tick
\* Boats on land started toward the sea: on the strip of land, and on the
\* eastern land at its shore, 3, 50 and 200 units inland.
ShoreBoats ==
    {[Boat_new(0, lon, 0) EXCEPT !.stop = FALSE, !.movingToSea = TRUE, !.desiredCourse = c] :
        lon \in {0, 1, 2, 1000, 1003, 1050, 1200}, c \in CourseSet}

\* The elapsed seconds of every tick of one run are those of its first
\* (kept in arg.s); desiredCourse is not changed and the chart is fixed.
InitApproach ==
    /\ boat \in ShoreBoats
    /\ randSeed \in 0..MaxInitSeed
    /\ op = "command"
    /\ pre = boat
    /\ arg = [NoArg EXCEPT !.s = F1]
    /\ calls = <<>>
    /\ ticks = 0
    /\ ctx = NoCtx

\* One more call of Boat_advance(boat, s) on a boat that is still moving to
\* sea and not stopped.  The calls are counted modulo MaxTicks.
ApproachTick ==
    /\ ~boat.stop /\ boat.movingToSea
    /\ \E in \in Inputs :
          /\ in.s = arg.s
          /\ \E r \in {Boat_advance(boat, in.s, randSeed, in.od, in.wx)} :
                /\ boat' = r.b
                /\ randSeed' = r.seed
                /\ calls' = r.calls
                /\ arg' = [s |-> in.s,
                           od |-> IF Made(r.calls, "Ocean_get") THEN in.od ELSE NoArg.od,
                           wx |-> IF Made(r.calls, "Weather_get") THEN in.wx ELSE NoArg.wx]
    /\ pre' = boat
    /\ op' = "advance"
    /\ ticks' = (ticks % MaxTicks) + 1
    /\ UNCHANGED ctx

\* What every step of ApproachTick does to the count of calls, and when it
\* can be taken.
NextTickDue == ~boat.stop /\ boat.movingToSea /\ ticks' = (ticks % MaxTicks) + 1

\* The simulation calls Boat_advance on the boat tick after tick: a call that
\* is due is made.
SpecApproach == InitApproach /\ [][ApproachTick]_vars /\ WF_ticks(NextTickDue)

\* ------------------------------------------------------------------ claims
\* The last step was a call of Boat_advance.
Ticked == op = "advance"

\* C1: a stopped boat is unchanged by Boat_advance (every field, stop
\* included, and no call is made), so it stays stopped over any number of calls.
C1_StoppedIsNoOp ==
    (Ticked /\ pre.stop) => (boat = pre /\ boat.stop /\ calls = <<>>)

\* A second call in a row found the boat stopped, with a course set and sails down.
C1_Witness ==
    /\ Ticked /\ pre.stop /\ ticks >= 2
    /\ pre.desiredCourse # 0 /\ pre.sailsDown /\ pre.movingToSea

\* Inside the polar margin: latitude >= 90 - eps or <= -90 + eps.
InPolarMargin(pos) ==
    pos.lat >= Lat90 - FORBIDDEN_LAT \/ pos.lat <= -(Lat90 - FORBIDDEN_LAT)

\* C2: a boat inside the polar margin when Boat_advance is called is stopped
\* after the call and has not moved: no displacement, probe or lookup is made.
C2_PolarGuard ==
    (Ticked /\ InPolarMargin(pre.pos)) =>
        /\ boat.stop
        /\ boat.pos = pre.pos
        /\ \A i \in 1..Len(calls) : calls[i].fn = "stopBoat"

\* A boat moving to sea, sails down, on the margin's own latitude was stopped by the call.
C2_Witness ==
    /\ Ticked /\ ~pre.stop /\ boat.stop
    /\ pre.pos.lat = Lat90 - FORBIDDEN_LAT
    /\ pre.movingToSea /\ pre.sailsDown

\* C3: after every call of Boat_advance the heading is in [0, 360).
C3_HeadingInRange ==
    Ticked => (boat.v.angle >= 0 /\ boat.v.angle < F360)


\* The last call of Boat_advance went through the sailing steps (lines 127-181).
SailingTick == Ticked /\ Made(calls, "Ocean_get")

\* C4: distanceTravelled after a call of Boat_advance is never below its
\* value before the call.
C4_DistanceNeverDecreases ==
    Ticked => boat.distanceTravelled >= pre.distanceTravelled

\* A second sailing tick added to a distance the first had already made positive.
C4_Witness ==
    /\ SailingTick /\ pre.distanceTravelled > 0
    /\ boat.distanceTravelled > pre.distanceTravelled

\* The last call of Boat_advance took the sails-down branch.
SailsDownTick == SailingTick /\ pre.sailsDown

\* (windAngle + 180) mod 360 in the arithmetic of the format.
DriftHeading(wx) == Rnd(FAdd(wx.angle, F180) % F360, 1)

\* 0.1 x windMagnitude x iceFactor in the arithmetic of the format.
DriftSpeed(od, wx) ==
    FMul(FMul(FTenth, wx.mag), IF od.valid THEN FSub(F1, FDiv(od.ice, F100)) ELSE F1)

\* Pre-states that differ from b only in desiredCourse, or only in heading
\* and speed.
Variants(b) ==
    {[b EXCEPT !.desiredCourse = FSub(F360, b.desiredCourse)],
     [b EXCEPT !.v = [angle |-> Deg(350), mag |-> Deg(5)]]}

\* C5 as stated: in a sails-down tick the heading is (windAngle + 180) mod 360,
\* the speed is 0.1 x windMagnitude x iceFactor, and both are the same from
\* every pre-state that differs only in desiredCourse, heading and speed.
C5_SailsDownMemoryless ==
    SailsDownTick =>
        /\ boat.v.angle = DriftHeading(arg.wx)
        /\ boat.v.mag = DriftSpeed(arg.od, arg.wx)
        /\ \A b \in Variants(pre) :
              Boat_advance(b, arg.s, randSeed, arg.od, arg.wx).b.v = boat.v

\* C5 amended: the same, except that the speed is 0 when that tick ends with
\* the boat on land (stopped by the grounding check).
C5_SailsDownMemorylessUnlessGrounded ==
    SailsDownTick =>
        /\ boat.v.angle = DriftHeading(arg.wx)
        /\ boat.v.mag = (IF GeoInfo_isWater(boat.pos) THEN DriftSpeed(arg.od, arg.wx) ELSE 0)
        /\ \A b \in Variants(pre) :
              Boat_advance(b, arg.s, randSeed, arg.od, arg.wx).b.v = boat.v

\* A boat drifting with sails down under 50% ice kept a speed and a heading
\* that differ from its previous speed, heading and desired course.
C5_Witness ==
    /\ SailsDownTick /\ ~boat.stop
    /\ arg.od.valid /\ arg.od.ice = Deg(50)
    /\ boat.v.mag > 0 /\ boat.v.mag # pre.v.mag
    /\ boat.v.angle # pre.v.angle /\ boat.v.angle # pre.desiredCourse


\* The last step was a call of updateCourse on its own.
CourseTick == op = "updateCourse"

\* shortestAngle(heading, desiredCourse) and turnRate x dt of the last call.
PreDiff == Compass_diff(pre.v.angle, pre.desiredCourse)
PreStep == FMul(getCourseChangeRate(pre.boatType), arg.s)

\* C6: when |shortestAngle(heading, desiredCourse)| <= turnRate x dt, the
\* heading after updateCourse is desiredCourse exactly.
C6_HeadingSnap ==
    (CourseTick /\ Abs(PreDiff) <= PreStep) => boat.v.angle = pre.desiredCourse

\* Heading 0, desiredCourse 5, turn rate 10, dt 1: the heading is 5.
C6_Witness ==
    /\ CourseTick /\ pre.v.angle = Deg(0) /\ pre.desiredCourse = Deg(5)
    /\ pre.boatType = 0 /\ arg.s = Deg(1)
    /\ boat.v.angle = Deg(5)

\* r is x mod 360: in [0, 360) and congruent to x (rounded to the format).
IsMod360(r, x) == r >= 0 /\ r < F360 /\ r = Rnd(x % F360, 1)

\* C7: when |diff| > turnRate x dt, the new heading is (heading - turnRate x dt)
\* mod 360 for diff in [-179, 0), (heading + turnRate x dt) mod 360 for diff in
\* (0, 179], and one of the two in the near-opposite band.
C7_BoundedTurn ==
    (CourseTick /\ Abs(PreDiff) > PreStep) =>
        LET left == IsMod360(boat.v.angle, FSub(pre.v.angle, PreStep))
            right == IsMod360(boat.v.angle, FAdd(pre.v.angle, PreStep))
        IN  IF PreDiff >= -F179 /\ PreDiff < 0 THEN left
            ELSE IF PreDiff > 0 /\ PreDiff <= F179 THEN right
            ELSE left \/ right

\* The calls of proteus_GeoPos_advance in the last Boat_advance, in order.
IsMove(c) == c.fn = "GeoPos_advance"
Moves == SelectSeq(calls, IsMove)

\* The current of the last call scaled by dt.
ScaledCurrent ==
    [angle |-> arg.od.current.angle, mag |-> FMul(arg.od.current.mag, arg.s)]

\* C8: in a sailing tick with valid ocean data the position is advanced by
\* velocity x dt, then by current x dt, and distanceTravelled grows by the
\* magnitude of the vector sum of the two.
C8_DistanceWithCurrent ==
    (SailingTick /\ arg.od.valid) =>
        /\ Len(Moves) = 2
        /\ Moves[1].pos = pre.pos
        /\ Moves[1].vec.angle = boat.v.angle
        /\ boat.stop \/ Moves[1].vec.mag = FMul(boat.v.mag, arg.s)
        /\ Moves[2].pos = GeoPos_advance(pre.pos, Moves[1].vec)
        /\ Moves[2].vec = ScaledCurrent
        /\ boat.pos = GeoPos_advance(Moves[2].pos, ScaledCurrent)
        /\ boat.distanceTravelled =
               FAdd(pre.distanceTravelled, GeoVec_add(ScaledCurrent, Moves[1].vec).mag)

\* A tick with a current across the boat's way: the distance grew by less
\* than the two magnitudes together.
C8_Witness ==
    /\ SailingTick /\ arg.od.valid /\ Len(Moves) = 2
    /\ Moves[1].vec.mag > 0 /\ ScaledCurrent.mag > 0
    /\ boat.distanceTravelled > pre.distanceTravelled
    /\ boat.distanceTravelled <
           FAdd(pre.distanceTravelled, FAdd(ScaledCurrent.mag, Moves[1].vec.mag))

\* The speed of a tick whose ice factor is exactly 1, the heading being a.
NeutralSpeed(a) ==
    IF pre.sailsDown
    THEN FMul(FMul(arg.wx.mag, FTenth), F1)
    ELSE FDiv(FAdd(FMul(getSpeedChangeResponse(pre.boatType), pre.v.mag),
                   FMul(arg.s, FMul(getBoatSpeed(arg.wx.mag, Compass_diff(arg.wx.angle, a),
                                                 pre.boatType), F1))),
              FAdd(getSpeedChangeResponse(pre.boatType), arg.s))

\* C9: in a sailing tick whose ocean lookup is invalid the ice factor is 1,
\* the position is advanced by velocity x dt only, distanceTravelled grows by
\* |velocity x dt|, and the boat stops only if it ends on land.
C9_InvalidOceanIsNeutral ==
    (SailingTick /\ ~arg.od.valid) =>
        /\ Len(Moves) = 1
        /\ Moves[1].pos = pre.pos
        /\ Moves[1].vec.angle = boat.v.angle
        /\ Moves[1].vec.mag = FMul(NeutralSpeed(boat.v.angle), arg.s)
        /\ boat.pos = GeoPos_advance(pre.pos, Moves[1].vec)
        /\ boat.distanceTravelled = FAdd(pre.distanceTravelled, Abs(Moves[1].vec.mag))
        /\ boat.stop <=> ~GeoInfo_isWater(boat.pos)
        /\ ~boat.stop => boat.v.mag = NeutralSpeed(boat.v.angle)

\* A boat under sail moved and stayed afloat in a tick with no ocean data.
C9_Witness ==
    /\ SailingTick /\ ~arg.od.valid /\ ~pre.sailsDown
    /\ ~boat.stop /\ boat.v.mag > 0 /\ boat.pos # pre.pos
    /\ boat.distanceTravelled > pre.distanceTravelled

\* The last call found the boat moving to sea, on land, with water ahead.
LandApproachTick ==
    /\ Ticked /\ ~pre.stop /\ ~InPolarMargin(pre.pos)
    /\ pre.movingToSea /\ ~GeoInfo_isWater(pre.pos)
    /\ Boat_isHeadingTowardWater(pre)

\* C10: in such a tick the heading becomes desiredCourse, the speed 0.5 x dt,
\* the position is advanced once by that vector, and nothing else is done or
\* changed: the only calls are the water test, the probe and the one advance.
C10_LandApproachMove ==
    LandApproachTick =>
        LET v == [angle |-> pre.desiredCourse, mag |-> FMul(FHalf, arg.s)]
        IN  /\ boat = [pre EXCEPT !.v = v, !.pos = GeoPos_advance(pre.pos, v)]
            /\ boat.movingToSea /\ ~boat.stop
            /\ boat.distanceTravelled = pre.distanceTravelled
            /\ Fns(calls) = <<"GeoInfo_isWater", "Boat_isHeadingTowardWater", "GeoPos_advance">>
            /\ calls[3].pos = pre.pos /\ calls[3].vec = v

\* A boat on the strip of land moved east toward the water in a tick of 2 seconds.
C10_Witness ==
    /\ LandApproachTick /\ arg.s = Deg(2)
    /\ pre.desiredCourse = Deg(90) /\ pre.v.angle # Deg(90)
    /\ boat.pos # pre.pos

\* C11: the stopped flag and the movingToSea flag are never both set after a
\* call of Boat_advance that found them not both set.
C11_ModeExclusive ==
    (Ticked /\ ~(pre.stop /\ pre.movingToSea)) => ~(boat.stop /\ boat.movingToSea)

\* C12: after a call of Boat_advance that leaves the boat not stopped the
\* latitude is strictly inside the polar margin's bounds, and no call of
\* proteus_GeoPos_advance starts from a position inside the margin.
C12_PolarLatitude ==
    Ticked =>
        /\ ~boat.stop => ~InPolarMargin(boat.pos)
        /\ \A i \in 1..Len(Moves) : ~InPolarMargin(Moves[i].pos)

\* The last call of Boat_advance changed stop from false to true.
StoppedInTick == Ticked /\ ~pre.stop /\ boat.stop

\* The last call ended a sailing tick on land.
GroundedInTick == SailingTick /\ ~GeoInfo_isWater(boat.pos)

\* The last call found the boat moving to sea, on land, with no water ahead.
NoWaterAhead ==
    pre.movingToSea /\ ~GeoInfo_isWater(pre.pos) /\ ~Boat_isHeadingTowardWater(pre)

\* C13 as stated: Boat_advance changes stop from false to true only when the
\* position was inside the polar margin at the start of the tick or when the
\* tick's move ended on land.
C13_StopCauses ==
    StoppedInTick => (InPolarMargin(pre.pos) \/ GroundedInTick)

\* C13 amended: the same, with a third cause: the boat is moving to sea, on
\* land, and the probe finds no water ahead.
C13_StopCausesWithProbe ==
    StoppedInTick => (InPolarMargin(pre.pos) \/ GroundedInTick \/ NoWaterAhead)

\* A boat under sail ran aground and was stopped, away from the poles.
C13_Witness ==
    /\ StoppedInTick /\ GroundedInTick /\ ~InPolarMargin(pre.pos)
    /\ GeoInfo_isWater(pre.pos) /\ boat.pos # pre.pos

\* The last call found the boat running, moving to sea, with water underfoot.
WaterArrivalTick ==
    /\ Ticked /\ ~pre.stop /\ ~InPolarMargin(pre.pos)
    /\ pre.movingToSea /\ GeoInfo_isWater(pre.pos)

\* The calls of the sailing steps that follow the test of the water underfoot:
\* the ocean lookup, the velocity of the tick (weather lookup alone with sails
\* down, else updateCourse and updateVelocity), the displacements, the
\* distance accounting, the grounding check.
SailingStepsAfter(fs) ==
    /\ Len(fs) >= 5
    /\ fs[1] = "GeoInfo_isWater"
    /\ fs[2] = "Ocean_get"
    /\ \/ pre.sailsDown /\ fs[3] = "Weather_get"
       \/ ~pre.sailsDown /\ fs[3] = "updateCourse" /\ "updateVelocity" \in {fs[i] : i \in 1..Len(fs)}
    /\ "GeoPos_advance" \in {fs[i] : i \in 1..Len(fs)}
    /\ \/ fs[Len(fs)] = "GeoInfo_isWater"
       \/ fs[Len(fs)] = "stopBoat" /\ fs[Len(fs) - 1] = "GeoInfo_isWater"

\* C14: Boat_advance clears movingToSea exactly when it is called on a boat
\* that is not stopped, outside the polar margin, moving to sea and on water;
\* that call runs the sailing steps; Boat_advance never sets movingToSea.
C14_WaterArrival ==
    Ticked =>
        /\ (pre.movingToSea /\ ~boat.movingToSea) <=> WaterArrivalTick
        /\ WaterArrivalTick =>
              /\ SailingStepsAfter(Fns(calls))
              /\ boat.distanceTravelled =
                     FAdd(pre.distanceTravelled,
                          IF arg.od.valid THEN GeoVec_add(ScaledCurrent, Moves[1].vec).mag
                          ELSE Abs(Moves[1].vec.mag))
        /\ ~pre.movingToSea => ~boat.movingToSea

\* A boat started toward the sea on open water sailed in the tick that
\* cleared movingToSea.
C14_Witness ==
    /\ WaterArrivalTick /\ ~boat.movingToSea /\ ~boat.stop
    /\ boat.pos # pre.pos /\ boat.distanceTravelled > pre.distanceTravelled

\* C15: a sailing tick that ends on a position classified as land leaves the
\* boat stopped with speed 0; and after any call of Boat_advance a boat that
\* is neither stopped nor moving to sea is on water.
C15_GroundingDetected ==
    Ticked =>
        /\ GroundedInTick => (boat.stop /\ boat.v.mag = 0)
        /\ (~boat.stop /\ ~boat.movingToSea) => GeoInfo_isWater(boat.pos)

\* A boat under way with a non-zero speed ran onto the eastern land.
C15_Witness ==
    /\ GroundedInTick /\ GeoInfo_isWater(pre.pos) /\ ~pre.stop
    /\ Len(Moves) >= 1 /\ Moves[1].vec.mag > 0
    /\ boat.stop /\ boat.v.mag = 0

\* C16: whenever stop is set the speed v.mag is exactly 0, in every state
\* reached from a new boat by calls of Boat_advance and the callers' commands.
C16_StoppedHasZeroSpeed == boat.stop => boat.v.mag = 0

\* A boat that had a non-zero speed before the call was stopped by it.
C16_Witness == StoppedInTick /\ pre.v.mag > 0 /\ boat.v.mag = 0

\* The headings updateCourse can leave from b, whatever the seed.
TurnedHeadings(b, s) == {updateCourse(b, s, sd).b.v.angle : sd \in 0..(RandMod - 1)}

\* C17: Boat_advance never sets setImmediateDesiredCourse; it clears it exactly
\* in a call that finds the boat running, moving to sea and on water, and in
\* that call the heading is desiredCourse when the sailing steps start; in a
\* call that finds the flag already cleared the heading is not snapped: it is
\* the one the sailing steps compute from the heading the call found.
C17_SnapOnce ==
    Ticked =>
        /\ boat.setImmediateDesiredCourse => pre.setImmediateDesiredCourse
        /\ (pre.setImmediateDesiredCourse /\ ~boat.setImmediateDesiredCourse)
               <=> (WaterArrivalTick /\ pre.setImmediateDesiredCourse)
        /\ (WaterArrivalTick /\ pre.setImmediateDesiredCourse /\ ~pre.sailsDown)
               => boat.v.angle = pre.desiredCourse
        /\ (WaterArrivalTick /\ ~pre.setImmediateDesiredCourse /\ ~pre.sailsDown)
               => boat.v.angle \in TurnedHeadings(pre, arg.s)

\* A boat whose snap was used up reached water again, and the call turned it
\* at its turn rate instead of snapping it to the desired course.
C17_Witness ==
    /\ WaterArrivalTick /\ ~pre.setImmediateDesiredCourse /\ ~pre.sailsDown
    /\ boat.v.angle # pre.desiredCourse /\ boat.v.angle # pre.v.angle
    /\ ~boat.movingToSea

\* The last step was a call of Boat_isHeadingTowardWater on its own.
ProbeTick == op = "probe"

\* The point k increments of 10 along desiredCourse from the position pos.
RECURSIVE Along(_, _, _)
Along(pos, v, k) == IF k = 0 THEN pos ELSE GeoPos_advance(Along(pos, v, k - 1), v)

\* The vector of one increment of the probe of the last call.
ProbeVec == [angle |-> pre.desiredCourse, mag |-> F10]

\* The increments (0..11, distances 0..110) whose point is water.
WaterIncrements == {k \in 0..11 : GeoInfo_isWater(Along(pre.pos, ProbeVec, k))}

\* The first increment whose point is water, 11 when there is none.
LastSampled == IF WaterIncrements = {} THEN 11
               ELSE CHOOSE k \in WaterIncrements : \A j \in WaterIncrements : k <= j

\* C18: Boat_isHeadingTowardWater returns true exactly when one of the 12
\* points at distances 0, 10, ..., 110 along desiredCourse is water; it
\* samples those points in order up to the first that is water; and it leaves
\* the boat as it was.
C18_ProbeRange ==
    ProbeTick =>
        /\ calls[Len(calls)].fn = (IF WaterIncrements # {} THEN "return true" ELSE "return false")
        /\ Len(calls) = LastSampled + 2
        /\ \A k \in 0..LastSampled : calls[k + 1].pos = Along(pre.pos, ProbeVec, k)
        /\ boat = pre

\* Water only at the twelfth point, 110 units ahead: found with 12 samples.
C18_Witness ==
    /\ ProbeTick /\ WaterIncrements = {11}
    /\ Len(calls) = 13 /\ calls[13].fn = "return true"

\* Context c is inside rand_r(&_randSeed): between its read of the seed and
\* its write of the next seed.
InSeedUpdate(c) == ctx[c].pc = "store"

\* C19: two contexts advancing distinct boats are never both inside the
\* read-modify-write of the shared seed: the accesses are synchronized, or
\* each context has a generator of its own.
C19_SeedAccessSerialized == ~(InSeedUpdate(1) /\ InSeedUpdate(2))

\* C20: a boat that is not stopped and moving to sea, ticked again and again
\* with the same dt, desiredCourse and chart, eventually has movingToSea
\* cleared or is stopped.
C20_LandApproachEnds ==
    (~boat.stop /\ boat.movingToSea) ~> (boat.stop \/ ~boat.movingToSea)

=============================================================================
